---- MODULE Spec2Model ----
(***************************************************************************)
(* Book-lending tracker: the route handlers of /api/books,                 *)
(* /api/books/[id] and /api/books/[id]/rent over the Book and Rental       *)
(* tables.  Every handler is split at its awaited store calls, so that     *)
(* concurrent requests interleave exactly where the code yields.           *)
(***************************************************************************)
EXTENDS Integers, FiniteSets, Sequences, Bags, TLC

\* ---------------------------------------------------------------- bounds
NumUsers == 3
MaxBooks == 1
MaxRentals == 2
MaxTime == 2
MaxInflight == 2
MaxShelf == 2
MaxScript == 3
MaxFetches == 2
MaxSent == 2
MaxFiles == 2
MaxUploads == 3

\* ------------------------------------------------------------- constants
Null == 0
NoUser == 0

Users == 1..NumUsers
Callers == Users \cup {NoUser}
BookIds == 1..MaxBooks

\* books, rentals     : the Book and Rental tables
\* nextBookId/RentalId: the next fresh primary key of each table
\* now                : the wall clock read by new Date() and @default(now())
\* inflight           : the requests suspended at an awaited store call
\* resp               : the response sent last: its handler and HTTP status
\* script, log        : the requests a scripted client still has to send and
\*                      the responses it has received
\* snapshot           : the Book and Rental tables as they were when the
\*                      request being served started
\* page               : the React state of the page a browser shows, and the
\*                      fetches of that page that are under way
VARIABLES books, rentals, nextBookId, nextRentalId, now, inflight, resp,
          script, log, snapshot, page

vars == <<books, rentals, nextBookId, nextRentalId, now, inflight, resp,
          script, log, snapshot, page>>
store == <<books, rentals, nextBookId, nextRentalId>>

\* ------------------------------------------------------- request records
\* NextResponse.json(..., { status }) of a handler; no response sent yet
Answered(kind, st) == [kind |-> kind, status |-> st]
NoResp == Answered("None", 0)

Pending(pc, kind, u, b, rid) == [pc |-> pc, kind |-> kind, user |-> u,
                                 book |-> b, rid |-> rid]

Suspend(r) == inflight (+) SetToBag({r})
Resume(r) == inflight (-) SetToBag({r})

\* the response sent last has left the server
Delivered == resp = NoResp

CanStart == Delivered /\ BagCardinality(inflight) < MaxInflight

\* ------------------------------------------------------- store queries
\* prisma.book.findUnique({ where: { id } })
FindBook(id) == {b \in books : b.id = id}

\* where: { bookId: id }
RentalsOf(id) == {r \in rentals : r.bookId = id}

\* where: { returnedAt: null }
OpenRentalsOf(id) == {r \in RentalsOf(id) : r.returnedAt = Null}

\* The store's foreign key Rental.bookId -> Book.id: an insert of a rental
\* needs its book to exist.
ForeignKeyHolds(bookId) == FindBook(bookId) # {}

NoReferencingRentalUnchecked(bookId) == TRUE

\* The store's foreign key without a cascade rule: a book that rentals still
\* reference cannot be deleted.
NoReferencingRental(bookId) == RentalsOf(bookId) = {}

\* ------------------------------------------------------ handler conditions
UnauthenticatedSkipped(u) == FALSE

\* if (!session?.user?.id)
Unauthenticated(u) == u = NoUser

AlreadyRentedOffByOne(openRentals) == Cardinality(openRentals) > 1

\* if (book.rentals.length > 0)
AlreadyRented(openRentals) == Cardinality(openRentals) > 0

NotRenterSkipped(activeRental, u) == FALSE

\* if (activeRental.userId !== session.user.id)
NotRenter(activeRental, u) == activeRental.userId # u

NotOwnerSkipped(book, u) == FALSE

\* if (book.ownerId !== session.user.id)
NotOwner(book, u) == book.ownerId # u

MissingFieldCoverOptional(title, author, coverImage) == ~title \/ ~author

\* if (!title || !author || !coverImage)
MissingField(title, author, coverImage) == ~title \/ ~author \/ ~coverImage

\* ------------------------------------------------------------------ Init
Init ==
    /\ books = {}
    /\ rentals = {}
    /\ nextBookId = 1
    /\ nextRentalId = 1
    /\ now = 1
    /\ inflight = EmptyBag
    /\ resp = NoResp
    /\ script = << >>
    /\ log = << >>
    /\ snapshot = << >>
    /\ page = << >>

\* ------------------------------------------------- POST /api/books (create)
NewBookOfFirstUser(u) == [id |-> nextBookId, ownerId |-> 1]

\* data: { ..., ownerId: session.user.id }
NewBook(u) == [id |-> nextBookId, ownerId |-> u]

CreateBook(u, title, author, coverImage) ==
    /\ CanStart
    /\ UNCHANGED <<rentals, nextRentalId, now, inflight>>
    /\ IF Unauthenticated(u)
       THEN /\ resp' = Answered("Create", 401)
            /\ UNCHANGED <<books, nextBookId>>
       ELSE IF MissingField(title, author, coverImage)
       THEN /\ resp' = Answered("Create", 400)
            /\ UNCHANGED <<books, nextBookId>>
       ELSE /\ nextBookId <= MaxBooks
            /\ books' = books \cup {NewBook(u)}
            /\ nextBookId' = nextBookId + 1
            /\ resp' = Answered("Create", 201)

\* -------------------------------------------- POST /api/books/[id]/rent
RentFind(u, id) ==
    /\ CanStart
    /\ UNCHANGED <<store, now>>
    /\ IF Unauthenticated(u)
       THEN resp' = Answered("Rent", 401) /\ UNCHANGED inflight
       ELSE IF FindBook(id) = {}
       THEN resp' = Answered("Rent", 404) /\ UNCHANGED inflight
       ELSE IF AlreadyRented(OpenRentalsOf(id))
       THEN resp' = Answered("Rent", 400) /\ UNCHANGED inflight
       ELSE /\ inflight' = Suspend(Pending("rent_create", "Rent", u, id, 0))
            /\ UNCHANGED resp

NewRentalClosed(id, u) == [id |-> nextRentalId, bookId |-> id, userId |-> u,
                           rentedAt |-> now, returnedAt |-> now]

\* data: { bookId: id, userId: session.user.id }; rentedAt defaults to now,
\* returnedAt to null
NewRental(id, u) == [id |-> nextRentalId, bookId |-> id, userId |-> u,
                     rentedAt |-> now, returnedAt |-> Null]

RentCreate(r) ==
    /\ r.pc = "rent_create"
    /\ Delivered
    /\ UNCHANGED <<books, nextBookId, now>>
    /\ inflight' = Resume(r)
    /\ IF ForeignKeyHolds(r.book)
       THEN /\ nextRentalId <= MaxRentals
            /\ rentals' = rentals \cup {NewRental(r.book, r.user)}
            /\ nextRentalId' = nextRentalId + 1
            /\ resp' = Answered("Rent", 201)
       ELSE /\ UNCHANGED <<rentals, nextRentalId>>
            /\ resp' = Answered("Rent", 500)

\* ------------------------------------------ DELETE /api/books/[id]/rent
ReturnFind(u, id) ==
    /\ CanStart
    /\ UNCHANGED <<store, now>>
    /\ IF Unauthenticated(u)
       THEN resp' = Answered("Return", 401) /\ UNCHANGED inflight
       ELSE IF OpenRentalsOf(id) = {}
       THEN resp' = Answered("Return", 404) /\ UNCHANGED inflight
       ELSE \E activeRental \in OpenRentalsOf(id) :
              IF NotRenter(activeRental, u)
              THEN resp' = Answered("Return", 403) /\ UNCHANGED inflight
              ELSE /\ inflight' = Suspend(Pending("return_update", "Return", u, id,
                                                  activeRental.id))
                   /\ UNCHANGED resp

CloseRentalNoop(rental, rid) == rental

CloseRentalOfAll(rental, rid) == [rental EXCEPT !.returnedAt = now]

\* data: { returnedAt: new Date() } on the rental where: { id }
CloseRental(rental, rid) ==
    IF rental.id = rid THEN [rental EXCEPT !.returnedAt = now] ELSE rental

ReturnUpdate(r) ==
    /\ r.pc = "return_update"
    /\ Delivered
    /\ UNCHANGED <<books, nextBookId, nextRentalId, now>>
    /\ inflight' = Resume(r)
    /\ IF \E rental \in rentals : rental.id = r.rid
       THEN /\ rentals' = {CloseRental(rental, r.rid) : rental \in rentals}
            /\ resp' = Answered("Return", 200)
       ELSE /\ UNCHANGED rentals
            /\ resp' = Answered("Return", 500)

\* ------------------------------------------------ DELETE /api/books/[id]
DeleteFind(u, id) ==
    /\ CanStart
    /\ UNCHANGED <<store, now>>
    /\ IF Unauthenticated(u)
       THEN resp' = Answered("Delete", 401) /\ UNCHANGED inflight
       ELSE IF FindBook(id) = {}
       THEN resp' = Answered("Delete", 404) /\ UNCHANGED inflight
       ELSE \E book \in FindBook(id) :
              IF NotOwner(book, u)
              THEN resp' = Answered("Delete", 403) /\ UNCHANGED inflight
              ELSE /\ inflight' = Suspend(Pending("delete_rentals", "Delete", u, id, 0))
                   /\ UNCHANGED resp

DeleteRentals(r) ==
    /\ r.pc = "delete_rentals"
    /\ Delivered
    /\ UNCHANGED <<books, nextBookId, nextRentalId, now, resp>>
    /\ rentals' = rentals \ RentalsOf(r.book)
    /\ inflight' = Suspend(Pending("delete_book", "Delete", r.user, r.book, 0))
                      (-) SetToBag({r})

DeleteBook(r) ==
    /\ r.pc = "delete_book"
    /\ Delivered
    /\ UNCHANGED <<rentals, nextBookId, nextRentalId, now>>
    /\ inflight' = Resume(r)
    /\ IF FindBook(r.book) # {} /\ NoReferencingRental(r.book)
       THEN /\ books' = books \ FindBook(r.book)
            /\ resp' = Answered("Delete", 200)
       ELSE /\ UNCHANGED books
            /\ resp' = Answered("Delete", 500)

\* ------------------------------------------------------------- response
\* return NextResponse.json(...): the response leaves the server
Deliver ==
    /\ ~Delivered
    /\ resp' = NoResp
    /\ UNCHANGED <<store, now, inflight, script, log, snapshot, page>>

\* ----------------------------------------------------------------- clock
\* new Date() / @default(now()): time passes between store calls
Tick ==
    /\ Delivered
    /\ now < MaxTime
    /\ now' = now + 1
    /\ UNCHANGED <<store, inflight, resp, script, log, snapshot, page>>

\* ------------------------------------------------------------------ Next
Create == \E u \in Users :
            CreateBook(u, TRUE, TRUE, TRUE) /\ UNCHANGED <<script, log, snapshot, page>>
RentStart == \E u \in Users, id \in BookIds :
            RentFind(u, id) /\ UNCHANGED <<script, log, snapshot, page>>
RentFinish == \E r \in BagToSet(inflight) :
            RentCreate(r) /\ UNCHANGED <<script, log, snapshot, page>>
ReturnStart == \E u \in Users, id \in BookIds :
            ReturnFind(u, id) /\ UNCHANGED <<script, log, snapshot, page>>
ReturnFinish == \E r \in BagToSet(inflight) :
            ReturnUpdate(r) /\ UNCHANGED <<script, log, snapshot, page>>
DeleteStart == \E u \in Users, id \in BookIds :
            DeleteFind(u, id) /\ UNCHANGED <<script, log, snapshot, page>>
DeleteMany == \E r \in BagToSet(inflight) :
            DeleteRentals(r) /\ UNCHANGED <<script, log, snapshot, page>>
DeleteFinish == \E r \in BagToSet(inflight) :
            DeleteBook(r) /\ UNCHANGED <<script, log, snapshot, page>>

Next ==
    \/ Create
    \/ RentStart
    \/ RentFinish
    \/ ReturnStart
    \/ ReturnFinish
    \/ DeleteStart
    \/ DeleteMany
    \/ DeleteFinish
    \/ Deliver
    \/ Tick

Spec == Init /\ [][Next]_vars

\* ------------------------------------------------------ GET /api/books
\* include: { rentals: { where: { returnedAt: null } } }
ListInclude(book) == [id |-> book.id, ownerId |-> book.ownerId,
                      rentals |-> OpenRentalsOf(book.id)]

ListFilterRentedUnfiltered(available, included) ==
    IF available = "true"
    THEN {b \in included : Cardinality(b.rentals) = 0}
    ELSE included

\* available === "true" / "false" / anything else
ListFilter(available, included) ==
    IF available = "true"
    THEN {b \in included : Cardinality(b.rentals) = 0}
    ELSE IF available = "false"
    THEN {b \in included : Cardinality(b.rentals) > 0}
    ELSE included

\* isAvailable: book.rentals.length === 0; currentRental: book.rentals[0] || null.
\* The included rentals carry no orderBy, so rentals[0] is any of them:
\* currentRental is the set of the rentals it can be, {} standing for null.
ListTransform(b) == [id |-> b.id, ownerId |-> b.ownerId,
                     isAvailable |-> Cardinality(b.rentals) = 0,
                     currentRental |-> b.rentals]

ListBooks(available) ==
    {ListTransform(b) : b \in ListFilter(available, {ListInclude(book) : book \in books})}

\* ------------------------------------------------- GET /api/books/[id]
OrderByRentedAtAsc(S) ==
    {seq \in [1..Cardinality(S) -> S] :
        /\ \A i, j \in 1..Cardinality(S) : i # j => seq[i] # seq[j]
        /\ \A i, j \in 1..Cardinality(S) : i < j => seq[i].rentedAt <= seq[j].rentedAt}

\* orderBy: { rentedAt: "desc" }: every order the store may return, rentals
\* with equal rentedAt in either order
OrderByRentedAtDesc(S) ==
    {seq \in [1..Cardinality(S) -> S] :
        /\ \A i, j \in 1..Cardinality(S) : i # j => seq[i] # seq[j]
        /\ \A i, j \in 1..Cardinality(S) : i < j => seq[i].rentedAt >= seq[j].rentedAt}

FalsyInverted(returnedAt) == returnedAt # Null

\* !r.returnedAt, returnedAt being a Date or null
Falsy(returnedAt) == returnedAt = Null

\* book.rentals.find((r) => !r.returnedAt): {} stands for undefined
FindActive(seq) ==
    LET hits == {i \in 1..Len(seq) : Falsy(seq[i].returnedAt)}
    IN IF hits = {} THEN {}
       ELSE {seq[CHOOSE i \in hits : \A j \in hits : i <= j]}

GetBook(id) ==
    IF FindBook(id) = {}
    THEN {[status |-> 404]}
    ELSE {[status |-> 200, id |-> id,
           ownerId |-> (CHOOSE b \in FindBook(id) : TRUE).ownerId,
           rentals |-> seq,
           isAvailable |-> FindActive(seq) = {},
           currentRental |-> FindActive(seq)] : seq \in OrderByRentedAtDesc(RentalsOf(id))}

\* ------------------------------------------- one request at a time
\* A client that sends a request only after the previous one was answered.
NoneInFlight == inflight = EmptyBag

SeqCreate == NoneInFlight /\ Create
SeqRentStart == NoneInFlight /\ RentStart
SeqReturnStart == NoneInFlight /\ ReturnStart
SeqDeleteStart == NoneInFlight /\ DeleteStart

NextSeq ==
    \/ SeqCreate
    \/ SeqRentStart
    \/ RentFinish
    \/ SeqReturnStart
    \/ ReturnFinish
    \/ SeqDeleteStart
    \/ DeleteMany
    \/ DeleteFinish
    \/ Deliver
    \/ Tick

SpecSeq == Init /\ [][NextSeq]_vars

\* ------------------------------------------------ GET /api/rentals/my
RentalsOfEveryone(u) == rentals

\* where: { userId: session.user.id }
RentalsBy(u) == {r \in rentals : r.userId = u}

\* findMany({ where, orderBy: { rentedAt: "desc" } }): every list the store
\* may return to the caller
RentalsMy(u) == OrderByRentedAtDesc(RentalsBy(u))

RentalsMyGet(u) ==
    /\ CanStart
    /\ UNCHANGED <<store, now, inflight>>
    /\ IF Unauthenticated(u)
       THEN resp' = Answered("RentalsMy", 401)
       ELSE resp' = Answered("RentalsMy", 200)

\* ------------------------------------- requests of any caller, any body
\* Concurrent requests as in Next, sent with or without a session, Create
\* with any of its three required fields present or missing.
BodyFields == BOOLEAN

CreateAny == \E u \in Callers, title \in BodyFields, author \in BodyFields,
                coverImage \in BodyFields :
            CreateBook(u, title, author, coverImage) /\ UNCHANGED <<script, log, snapshot, page>>
RentAny == \E u \in Callers, id \in BookIds :
            RentFind(u, id) /\ UNCHANGED <<script, log, snapshot, page>>
ReturnAny == \E u \in Callers, id \in BookIds :
            ReturnFind(u, id) /\ UNCHANGED <<script, log, snapshot, page>>
DeleteAny == \E u \in Callers, id \in BookIds :
            DeleteFind(u, id) /\ UNCHANGED <<script, log, snapshot, page>>
RentalsMyAny == \E u \in Callers :
            RentalsMyGet(u) /\ UNCHANGED <<script, log, snapshot, page>>

NextOpen ==
    \/ CreateAny
    \/ RentAny
    \/ RentFinish
    \/ ReturnAny
    \/ ReturnFinish
    \/ DeleteAny
    \/ DeleteMany
    \/ DeleteFinish
    \/ RentalsMyAny
    \/ Deliver
    \/ Tick

SpecOpen == Init /\ [][NextOpen]_vars

\* ------------------------------------------------- the read handlers
\* searchParams.get("available"): "true", "false", another value, or null
\* when the parameter is absent
AvailableParams == {"true", "false", "yes", "null"}

\* GET /api/books: always 200 when the store answers
ListGet(available) ==
    /\ CanStart
    /\ resp' = Answered("List", 200)
    /\ UNCHANGED <<store, now, inflight>>

\* GET /api/books/[id]: 404 if (!book), else 200
BookGet(id) ==
    /\ CanStart
    /\ resp' = Answered("Get", IF FindBook(id) = {} THEN 404 ELSE 200)
    /\ UNCHANGED <<store, now, inflight>>

\* The read handlers over every store the mutating handlers can leave behind
\* with at most MaxShelf books and MaxRentals rentals: book ids are distinct,
\* every rental references a book of the store, rental ids follow the order
\* of insertion, a closed rental was returned no earlier than it was rented.
\* A book may hold several open rentals (two Rents that raced).
ShelfIds == 1..MaxShelf

Shelves ==
    {S \in SUBSET [id : ShelfIds, ownerId : Users] :
        \A b, c \in S : b.id = c.id => b = c}

RentalRows(shelf) ==
    [bookId : {b.id : b \in shelf}, userId : Users,
     rentedAt : 1..MaxTime, returnedAt : 0..MaxTime]

RentalTables(shelf) ==
    UNION {{ {[id |-> i, bookId |-> f[i].bookId, userId |-> f[i].userId,
               rentedAt |-> f[i].rentedAt, returnedAt |-> f[i].returnedAt] : i \in 1..k} :
             f \in {g \in [1..k -> RentalRows(shelf)] :
                      /\ \A i \in 1..k :
                            g[i].returnedAt = Null \/ g[i].returnedAt >= g[i].rentedAt
                      /\ \A i, j \in 1..k :
                            i < j => g[i].rentedAt <= g[j].rentedAt} } :
           k \in 0..MaxRentals}

InitShelf ==
    /\ books \in Shelves
    /\ rentals \in RentalTables(books)
    /\ nextBookId = MaxShelf + 1
    /\ nextRentalId = Cardinality(rentals) + 1
    /\ now = MaxTime
    /\ inflight = EmptyBag
    /\ resp = NoResp
    /\ script = << >>
    /\ log = << >>
    /\ snapshot = << >>
    /\ page = << >>

ShelfList == \E available \in AvailableParams :
            ListGet(available) /\ UNCHANGED <<script, log, snapshot, page>>
ShelfGet == \E id \in ShelfIds :
            BookGet(id) /\ UNCHANGED <<script, log, snapshot, page>>
ShelfRentalsMy == \E u \in Callers :
            RentalsMyGet(u) /\ UNCHANGED <<script, log, snapshot, page>>

NextShelf ==
    \/ ShelfList
    \/ ShelfGet
    \/ ShelfRentalsMy
    \/ Deliver

SpecShelf == InitShelf /\ [][NextShelf]_vars

\* ------------------------------------------------------ store failures
\* A store call that throws is caught by the handler's catch block, which
\* answers 500.  The first store call of Create comes after the session and
\* body checks, that of Rent, Return and Delete after the session check.
Kinds == {"Create", "Rent", "Return", "Delete"}

StoreFailsAtStart(kind, u) ==
    /\ CanStart
    /\ ~Unauthenticated(u)
    /\ resp' = Answered(kind, 500)
    /\ UNCHANGED <<store, now, inflight>>

\* the store call a suspended handler is waiting for throws
StoreFailsAtStep(r) ==
    /\ Delivered
    /\ inflight' = Resume(r)
    /\ resp' = Answered(r.kind, 500)
    /\ UNCHANGED <<store, now>>

\* One request at a time, of any caller and with any body, over a store
\* whose calls may fail; snapshot keeps the tables as the request found them.
Tables == <<books, rentals>>

FailCreate ==
    /\ NoneInFlight
    /\ \E u \in Callers, title \in BodyFields, author \in BodyFields,
          coverImage \in BodyFields : CreateBook(u, title, author, coverImage)
    /\ snapshot' = Tables
    /\ UNCHANGED <<script, log, page>>

FailRentStart ==
    /\ NoneInFlight
    /\ \E u \in Callers, id \in BookIds : RentFind(u, id)
    /\ snapshot' = Tables
    /\ UNCHANGED <<script, log, page>>

FailReturnStart ==
    /\ NoneInFlight
    /\ \E u \in Callers, id \in BookIds : ReturnFind(u, id)
    /\ snapshot' = Tables
    /\ UNCHANGED <<script, log, page>>

FailDeleteStart ==
    /\ NoneInFlight
    /\ \E u \in Callers, id \in BookIds : DeleteFind(u, id)
    /\ snapshot' = Tables
    /\ UNCHANGED <<script, log, page>>

FailAtStart ==
    /\ NoneInFlight
    /\ \E kind \in Kinds, u \in Users : StoreFailsAtStart(kind, u)
    /\ snapshot' = Tables
    /\ UNCHANGED <<script, log, page>>

FailAtStep ==
    \E r \in BagToSet(inflight) :
        StoreFailsAtStep(r) /\ UNCHANGED <<script, log, snapshot, page>>

NextFail ==
    \/ FailCreate
    \/ FailRentStart
    \/ RentFinish
    \/ FailReturnStart
    \/ ReturnFinish
    \/ FailDeleteStart
    \/ DeleteMany
    \/ DeleteFinish
    \/ FailAtStart
    \/ FailAtStep
    \/ Deliver
    \/ Tick

SpecFail == Init /\ [][NextFail]_vars

\* ------------------------------------------------- scripted clients
\* script holds the requests still to send, each with the flag wait: the
\* client sends it only after every earlier request was answered.  log holds
\* the answers in the order they arrived.
Request(kind, u, b, wait) == [kind |-> kind, user |-> u, book |-> b, wait |-> wait]

Answer(kind, u, b, st) == [kind |-> kind, user |-> u, book |-> b, status |-> st]

Requested(kind) ==
    /\ script # << >>
    /\ Head(script).kind = kind
    /\ Head(script).wait => NoneInFlight

ScriptCreate ==
    /\ UNCHANGED <<snapshot, page>>
    /\ Requested("Create")
    /\ CreateBook(Head(script).user, TRUE, TRUE, TRUE)
    /\ script' = Tail(script)
    /\ log' = Append(log, Answer("Create", Head(script).user, nextBookId, resp'.status))

ScriptRent ==
    /\ UNCHANGED <<snapshot, page>>
    /\ Requested("Rent")
    /\ RentFind(Head(script).user, Head(script).book)
    /\ script' = Tail(script)
    /\ log' = IF inflight' = inflight
              THEN Append(log, Answer("Rent", Head(script).user, Head(script).book, resp'.status))
              ELSE log

ScriptRentFinish ==
    \E r \in BagToSet(inflight) :
        /\ RentCreate(r)
        /\ UNCHANGED <<script, snapshot, page>>
        /\ log' = Append(log, Answer("Rent", r.user, r.book, resp'.status))

ScriptReturn ==
    /\ UNCHANGED <<snapshot, page>>
    /\ Requested("Return")
    /\ ReturnFind(Head(script).user, Head(script).book)
    /\ script' = Tail(script)
    /\ log' = IF inflight' = inflight
              THEN Append(log, Answer("Return", Head(script).user, Head(script).book, resp'.status))
              ELSE log

ScriptReturnFinish ==
    \E r \in BagToSet(inflight) :
        /\ ReturnUpdate(r)
        /\ UNCHANGED <<script, snapshot, page>>
        /\ log' = Append(log, Answer("Return", r.user, r.book, resp'.status))

\* Two clients rent the same available book at the same time.
InitRace ==
    \E owner \in Users, u1 \in Users, u2 \in Users :
        /\ u1 # u2
        /\ books = {[id |-> 1, ownerId |-> owner]}
        /\ rentals = {}
        /\ nextBookId = 2
        /\ nextRentalId = 1
        /\ now = 1
        /\ inflight = EmptyBag
        /\ resp = NoResp
        /\ script = <<Request("Rent", u1, 1, FALSE), Request("Rent", u2, 1, FALSE)>>
        /\ log = << >>
        /\ snapshot = << >>
        /\ page = << >>

NextRace ==
    \/ ScriptRent
    \/ ScriptRentFinish
    \/ Deliver
    \/ Tick

SpecRace == InitRace /\ [][NextRace]_vars

\* Clients that send any MaxScript Rent and Return requests for book 1, each
\* either after the answers to the earlier ones or without waiting for them.
Traffic ==
    {Request(kind, u, 1, wait) :
        kind \in {"Rent", "Return"}, u \in Users, wait \in BOOLEAN}

InitTraffic ==
    \E owner \in Users :
        /\ books = {[id |-> 1, ownerId |-> owner]}
        /\ rentals = {}
        /\ nextBookId = 2
        /\ nextRentalId = 1
        /\ now = 1
        /\ inflight = EmptyBag
        /\ resp = NoResp
        /\ script \in [1..MaxScript -> Traffic]
        /\ log = << >>
        /\ snapshot = << >>
        /\ page = << >>

NextTraffic ==
    \/ ScriptRent
    \/ ScriptRentFinish
    \/ ScriptReturn
    \/ ScriptReturnFinish
    \/ Deliver
    \/ Tick

SpecTraffic == InitTraffic /\ [][NextTraffic]_vars

\* The lending scenario: U1 creates B, U2 rents it, U1 tries to return it,
\* U2 returns it, U2 rents it again.
InitScenario ==
    \E u1 \in Users, u2 \in Users :
        /\ u1 # u2
        /\ books = {}
        /\ rentals = {}
        /\ nextBookId = 1
        /\ nextRentalId = 1
        /\ now = 1
        /\ inflight = EmptyBag
        /\ resp = NoResp
        /\ script = <<Request("Create", u1, 0, TRUE), Request("Rent", u2, 1, TRUE),
                      Request("Return", u1, 1, TRUE), Request("Return", u2, 1, TRUE),
                      Request("Rent", u2, 1, TRUE)>>
        /\ log = << >>
        /\ snapshot = << >>
        /\ page = << >>

NextScenario ==
    \/ ScriptCreate
    \/ ScriptRent
    \/ ScriptRentFinish
    \/ ScriptReturn
    \/ ScriptReturnFinish
    \/ Deliver
    \/ Tick

SpecScenario == InitScenario /\ [][NextScenario]_vars

\* ============================================================ the pages
\* ------------------------------------- the body of a GET /api/books answer
\* every order in which the store may return the rows of S
RowOrders(S) ==
    {seq \in [1..Cardinality(S) -> S] :
        \A i, j \in 1..Cardinality(S) : i # j => seq[i] # seq[j]}

\* { ...book, isAvailable, currentRental }: the included open rentals stay
\* in the body as book.rentals; {} stands for null
ListView(book, rs) == [id |-> book.id, ownerId |-> book.ownerId,
                       rentals |-> rs,
                       isAvailable |-> Len(rs) = 0,
                       currentRental |-> IF Len(rs) = 0 THEN {} ELSE {rs[1]}]

\* for each book an order of its included rentals (the include has no orderBy)
RentalOrders ==
    {f \in [{b.id : b \in books} ->
                UNION {RowOrders(OpenRentalsOf(b.id)) : b \in books}] :
        \A b \in books : f[b.id] \in RowOrders(OpenRentalsOf(b.id))}

\* The bodies GET /api/books may answer with.  Books carry no createdAt here,
\* so the books come in any order, createdAt desc being one of them.
ListResponses ==
    {[i \in 1..Len(bs) |-> ListView(bs[i], ord[bs[i].id])] :
        bs \in RowOrders(books), ord \in RentalOrders}

\* ------------------------------------------------ MyBooksPage.fetchData
\* allBooks.filter((book) => book.owner.id === session.user?.id)
OwnedBooks(allBooks, u) == SelectSeq(allBooks, LAMBDA book : book.ownerId = u)

\* for (const rental of book.rentals) if (rental.user.id === session.user?.id)
OwnRentals(rs, u) == SelectSeq(rs, LAMBDA rental : rental.userId = u)

ExistsIgnored(acc, id) == FALSE

\* rentals.some((r) => r.id === book.currentRental.id)
Exists(acc, id) == \E i \in 1..Len(acc) : acc[i].id = id

\* if (book.currentRental && book.currentRental.user.id === session.user?.id)
\*   if (!exists) rentals.push(...)
WithCurrentRental(acc, book, u) ==
    IF \E c \in book.currentRental : c.userId = u /\ ~Exists(acc, c.id)
    THEN Append(acc, CHOOSE c \in book.currentRental : TRUE)
    ELSE acc

\* for (const book of allBooks) { ... }: the first n books
RECURSIVE CollectRentals(_, _, _)
CollectRentals(allBooks, u, n) ==
    IF n = 0 THEN << >>
    ELSE WithCurrentRental(CollectRentals(allBooks, u, n - 1)
                               \o OwnRentals(allBooks[n].rentals, u),
                           allBooks[n], u)

\* Array.prototype.sort with (a, b) => b.rentedAt - a.rentedAt: a stable sort
Insert(sorted, x) ==
    LET k == Cardinality({i \in 1..Len(sorted) : sorted[i].rentedAt >= x.rentedAt})
    IN SubSeq(sorted, 1, k) \o <<x>> \o SubSeq(sorted, k + 1, Len(sorted))

RECURSIVE SortByRentedAtDesc(_)
SortByRentedAtDesc(seq) ==
    IF seq = << >> THEN << >>
    ELSE Insert(SortByRentedAtDesc(SubSeq(seq, 1, Len(seq) - 1)), seq[Len(seq)])

\* The My Books page of a signed-in user over any store content: its first
\* fetch and every later one.
InitMyBooks ==
    /\ books \in Shelves
    /\ rentals \in RentalTables(books)
    /\ nextBookId = MaxShelf + 1
    /\ nextRentalId = Cardinality(rentals) + 1
    /\ now = MaxTime
    /\ inflight = EmptyBag
    /\ resp = NoResp
    /\ script = << >>
    /\ log = << >>
    /\ snapshot = << >>
    /\ \E u \in Users :
          page = [user |-> u, myBooks |-> << >>, myRentals |-> << >>,
                  loading |-> TRUE]

\* const booksResponse = await fetch("/api/books"); if (booksResponse.ok) ...
FetchData ==
    /\ ListGet("null")
    /\ \E allBooks \in ListResponses :
          page' = [page EXCEPT
                     !.myBooks = OwnedBooks(allBooks, page.user),
                     !.myRentals = SortByRentedAtDesc(
                         CollectRentals(allBooks, page.user, Len(allBooks))),
                     !.loading = FALSE]
    /\ UNCHANGED <<script, log, snapshot>>

NextMyBooks ==
    \/ FetchData
    \/ Deliver

SpecMyBooks == InitMyBooks /\ [][NextMyBooks]_vars

\* ------------------------------------------------------- BookDetailPage
\* The detail page of book DetailId in the browser of a signed-in user, over
\* any store content, while other users send requests of their own.  A
\* request is sent only when no other request is being served.
\*   book          : the book displayed, NoBook before the first answer
\*   loading       : the skeleton is shown
\*   actionLoading : the buttons are disabled
\*   fetching      : a fetchBook is under way
\*   action        : the request a handler is awaiting, "none" if none
\*   toast         : the notification shown last
\*   route         : the page the router is on
DetailId == 1

\* useState<Book | null>(null)
NoBook == [status |-> 0]

\* the stores that hold at most the book of the page
DetailShelves == {S \in Shelves : \A b \in S : b.id = DetailId}

InitDetail ==
    /\ books \in DetailShelves
    /\ rentals \in RentalTables(books)
    /\ nextBookId = MaxShelf + 1
    /\ nextRentalId = Cardinality(rentals) + 1
    /\ now = MaxTime
    /\ inflight = EmptyBag
    /\ resp = NoResp
    /\ script = << >>
    /\ log = << >>
    /\ snapshot = << >>
    /\ \E u \in Users :
          page = [user |-> u, book |-> NoBook, loading |-> TRUE,
                  actionLoading |-> FALSE, fetching |-> TRUE,
                  action |-> "none", toast |-> "none", route |-> "detail"]

\* response.ok
Ok(st) == st \in 200..299

\* fetchBook: if (response.ok) setBook(data); else if (response.status === 404)
\* { toast.error; router.push("/") }; finally setLoading(false)
FetchBook ==
    /\ page.route = "detail"
    /\ page.fetching
    /\ BookGet(DetailId)
    /\ \E data \in GetBook(DetailId) :
          page' = [page EXCEPT
                     !.book = IF Ok(data.status) THEN data ELSE @,
                     !.toast = IF data.status = 404 THEN "error" ELSE @,
                     !.route = IF data.status = 404 THEN "home" ELSE @,
                     !.loading = FALSE,
                     !.fetching = FALSE]
    /\ UNCHANGED <<script, log, snapshot>>

\* fetchBook answered 500 by the handler's catch block: neither branch runs
FetchBookFails ==
    /\ page.route = "detail"
    /\ page.fetching
    /\ CanStart
    /\ resp' = Answered("Get", 500)
    /\ page' = [page EXCEPT !.loading = FALSE, !.fetching = FALSE]
    /\ UNCHANGED <<store, now, inflight, script, log, snapshot>>

\* fetch itself throws (no answer): catch { toast.error("Failed to load book") }
FetchBookThrows ==
    /\ page.route = "detail"
    /\ page.fetching
    /\ page' = [page EXCEPT !.toast = "error", !.loading = FALSE,
                            !.fetching = FALSE]
    /\ UNCHANGED <<store, now, inflight, resp, script, log, snapshot>>

\* const isOwner = session?.user?.id === book?.owner.id
IsOwner == page.book.ownerId = page.user

\* const isRentedByMe = book?.currentRental?.user.id === session?.user?.id
IsRentedByMe == \E c \in page.book.currentRental : c.userId = page.user

\* the page renders its buttons: if (loading) skeleton; if (!book) null
Rendered == page.route = "detail" /\ ~page.loading /\ page.book.status # 0

\* book.isAvailable ? <Button disabled={actionLoading || !session}> Rent
OffersRent ==
    Rendered /\ page.book.isAvailable /\ ~page.actionLoading /\ page.user # NoUser

\* : isRentedByMe ? <Button disabled={actionLoading}> Return
OffersReturn ==
    Rendered /\ ~page.book.isAvailable /\ IsRentedByMe /\ ~page.actionLoading

\* isOwner && <Button disabled={actionLoading}> Delete
OffersDelete == Rendered /\ IsOwner /\ ~page.actionLoading

\* setActionLoading(true); await fetch(...)
Awaiting(kind) == [page EXCEPT !.actionLoading = TRUE, !.action = kind]

ClickRent ==
    /\ OffersRent
    /\ NoneInFlight
    /\ RentFind(page.user, DetailId)
    /\ page' = Awaiting("Rent")
    /\ UNCHANGED <<script, log, snapshot>>

ClickReturn ==
    /\ OffersReturn
    /\ NoneInFlight
    /\ ReturnFind(page.user, DetailId)
    /\ page' = Awaiting("Return")
    /\ UNCHANGED <<script, log, snapshot>>

ClickDelete ==
    /\ OffersDelete
    /\ NoneInFlight
    /\ DeleteFind(page.user, DetailId)
    /\ page' = Awaiting("Delete")
    /\ UNCHANGED <<script, log, snapshot>>

\* the awaited answer arrives: if (!response.ok) throw -> catch toast.error;
\* else toast.success and fetchBook() (router.push("/") after a Delete);
\* finally setActionLoading(false)
ActionAnswered ==
    /\ page.action # "none"
    /\ resp.kind = page.action
    /\ resp' = NoResp
    /\ page' = [page EXCEPT
                  !.toast = IF Ok(resp.status) THEN "success" ELSE "error",
                  !.fetching = IF Ok(resp.status) /\ page.action # "Delete"
                               THEN TRUE ELSE @,
                  !.route = IF Ok(resp.status) /\ page.action = "Delete"
                            THEN "home" ELSE @,
                  !.actionLoading = FALSE,
                  !.action = "none"]
    /\ UNCHANGED <<store, now, inflight, script, log, snapshot>>

\* the other users, while the page awaits nothing
Idle == page.action = "none"

OthersRent == Idle /\ SeqRentStart
OthersReturn == Idle /\ SeqReturnStart
OthersDelete == Idle /\ SeqDeleteStart
OthersAnswered == Idle /\ Deliver

NextDetail ==
    \/ FetchBook
    \/ FetchBookFails
    \/ FetchBookThrows
    \/ ClickRent
    \/ ClickReturn
    \/ ClickDelete
    \/ ActionAnswered
    \/ OthersRent
    \/ OthersReturn
    \/ OthersDelete
    \/ OthersAnswered
    \/ RentFinish
    \/ ReturnFinish
    \/ DeleteMany
    \/ DeleteFinish

SpecDetail == InitDetail /\ [][NextDetail]_vars

\* ------------------------------------------------------------- HomePage
\* The home page over any store content: the availability filter, the list
\* displayed and the list requests that have not been answered yet.
\*   filter        : useState<string>("all")
\*   books         : the list displayed, useState<Book[]>([])
\*   pending       : for each filter value, the fetchBooks calls awaiting
\*                   their answer
\*   isInitialLoad : useState(true)
Filters == {"all", "available", "rented"}

\* if (filter === "available") params.set("available", "true");
\* if (filter === "rented") params.set("available", "false")
Param(filter) ==
    IF filter = "available" THEN "true"
    ELSE IF filter = "rented" THEN "false"
    ELSE "null"

Fetches(pending) == pending["all"] + pending["available"] + pending["rented"]

\* fetchBooks up to its await: the request carries the filter of its closure
Fetching(pending, filter) == [pending EXCEPT ![filter] = @ + 1]

InitHome ==
    /\ books \in Shelves
    /\ rentals \in RentalTables(books)
    /\ nextBookId = MaxShelf + 1
    /\ nextRentalId = Cardinality(rentals) + 1
    /\ now = MaxTime
    /\ inflight = EmptyBag
    /\ resp = NoResp
    /\ script = << >>
    /\ log = << >>
    /\ snapshot = << >>
    /\ page = [filter |-> "all", books |-> {},
               pending |-> Fetching([f \in Filters |-> 0], "all"), isInitialLoad |-> TRUE]

\* <Select value={filter} onValueChange={setFilter}>: fetchBooks depends on
\* [filter], so the effect calls the new fetchBooks
SelectFilter(filter) ==
    /\ filter # page.filter
    /\ Fetches(page.pending) < MaxFetches
    /\ page' = [page EXCEPT !.filter = filter,
                            !.pending = Fetching(@, filter)]
    /\ UNCHANGED <<store, now, inflight, resp, script, log, snapshot>>

\* onUpdate={fetchBooks} / onBookAdded={fetchBooks}
Refresh ==
    /\ Fetches(page.pending) < MaxFetches
    /\ page' = [page EXCEPT !.pending = Fetching(@, page.filter)]
    /\ UNCHANGED <<store, now, inflight, resp, script, log, snapshot>>

\* the answer to a pending request arrives: if (response.ok) setBooks(data);
\* finally setIsInitialLoad(false)
FetchBooksAnswered(filter) ==
    /\ page.pending[filter] > 0
    /\ ListGet(Param(filter))
    /\ page' = [page EXCEPT !.books = ListBooks(Param(filter)),
                            !.pending[filter] = @ - 1,
                            !.isInitialLoad = FALSE]
    /\ UNCHANGED <<script, log, snapshot>>

NextHome ==
    \/ \E filter \in Filters : SelectFilter(filter)
    \/ Refresh
    \/ \E filter \in Filters : FetchBooksAnswered(filter)
    \/ Deliver

SpecHome == InitHome /\ [][NextHome]_vars

\* -------------------------------------- MyBooksPage.handleReturn / handleDelete
\* The My Books page with its buttons.  The requests the page has sent wait
\* in `sent`; the handlers serve them one at a time, in any order.
\*   actionLoading : the book id set by the handler that started last,
\*                   Null for null
\*   sent          : the requests sent and not served yet
\*   serving       : the request being served, NoRequest if none
\*   fetching      : a fetchData is under way
NoRequest == [kind |-> "none", book |-> Null]

InitMyActions ==
    /\ books \in Shelves
    /\ rentals \in RentalTables(books)
    /\ nextBookId = MaxShelf + 1
    /\ nextRentalId = Cardinality(rentals) + 1
    /\ now = MaxTime
    /\ inflight = EmptyBag
    /\ resp = NoResp
    /\ script = << >>
    /\ log = << >>
    /\ snapshot = << >>
    /\ \E u \in Users :
          page = [user |-> u, myBooks |-> << >>, myRentals |-> << >>,
                  loading |-> TRUE, actionLoading |-> Null, sent |-> {},
                  serving |-> NoRequest, fetching |-> TRUE]

\* fetchData, on mount and after an action that succeeded
FetchMyData ==
    /\ page.fetching
    /\ ListGet("null")
    /\ \E allBooks \in ListResponses :
          page' = [page EXCEPT
                     !.myBooks = OwnedBooks(allBooks, page.user),
                     !.myRentals = SortByRentedAtDesc(
                         CollectRentals(allBooks, page.user, Len(allBooks))),
                     !.loading = FALSE,
                     !.fetching = FALSE]
    /\ UNCHANGED <<script, log, snapshot>>

\* disabled={actionLoading === book.id}
Disabled(id) == page.actionLoading = id

\* the requests of the page that have not been answered
Unanswered == page.sent \cup ({page.serving} \ {NoRequest})

\* setActionLoading(bookId); await fetch(...)
Send(kind, id) ==
    /\ ~page.loading
    /\ ~Disabled(id)
    /\ Cardinality(Unanswered) < MaxSent
    /\ page' = [page EXCEPT !.actionLoading = id,
                            !.sent = @ \cup {[kind |-> kind, book |-> id]}]
    /\ UNCHANGED <<store, now, inflight, resp, script, log, snapshot>>

\* the delete button of a book of the "My Books" tab
ClickMyDelete ==
    \E i \in 1..Len(page.myBooks) : Send("Delete", page.myBooks[i].id)

\* the return button of a rental of the "My Rentals" tab:
\* !rental.returnedAt && rental.book
ClickMyReturn ==
    \E i \in 1..Len(page.myRentals) :
        /\ page.myRentals[i].returnedAt = Null
        /\ Send("Return", page.myRentals[i].bookId)

ServeReturn ==
    \E r \in page.sent :
        /\ r.kind = "Return"
        /\ page.serving = NoRequest
        /\ NoneInFlight
        /\ ReturnFind(page.user, r.book)
        /\ page' = [page EXCEPT !.sent = @ \ {r}, !.serving = r]
        /\ UNCHANGED <<script, log, snapshot>>

ServeDelete ==
    \E r \in page.sent :
        /\ r.kind = "Delete"
        /\ page.serving = NoRequest
        /\ NoneInFlight
        /\ DeleteFind(page.user, r.book)
        /\ page' = [page EXCEPT !.sent = @ \ {r}, !.serving = r]
        /\ UNCHANGED <<script, log, snapshot>>

\* the awaited answer arrives: toast, fetchData() if response.ok;
\* finally setActionLoading(null)
MyActionAnswered ==
    /\ page.serving # NoRequest
    /\ resp.kind = page.serving.kind
    /\ resp' = NoResp
    /\ page' = [page EXCEPT
                  !.fetching = IF Ok(resp.status) THEN TRUE ELSE @,
                  !.actionLoading = Null,
                  !.serving = NoRequest]
    /\ UNCHANGED <<store, now, inflight, script, log, snapshot>>

\* the answer to fetchData has been taken
FetchMyDataDone == resp.kind = "List" /\ Deliver

NextMyActions ==
    \/ FetchMyData
    \/ FetchMyDataDone
    \/ ClickMyDelete
    \/ ClickMyReturn
    \/ ServeReturn
    \/ ServeDelete
    \/ ReturnFinish
    \/ DeleteMany
    \/ DeleteFinish
    \/ MyActionAnswered

SpecMyActions == InitMyActions /\ [][NextMyActions]_vars

\* -------------------------------------------------------- AddBookDialog
\* The Add Book dialog of a signed-in user over an empty store.
\*   open       : the dialog is shown
\*   coverImage : the url set by the upload that was answered last, NoUrl
\*                for null
\*   previewUrl : the object url of the file selected last, NoUrl for null
\*   uploading  : useState(false), set by handleFileSelect
\*   loading    : a POST /api/books is awaiting its answer
\*   uploads    : the uploads awaiting their answer
\*   selected   : the number of files selected so far
Files == 1..MaxFiles

NoUrl == << >>

\* URL.createObjectURL(file)
ObjectUrl(file) == <<"blob", file>>

\* const { url } = await response.json(): the url of the stored file
UploadUrl(file) == <<"uploads", file>>

InitDialog ==
    /\ books = {}
    /\ rentals = {}
    /\ nextBookId = 1
    /\ nextRentalId = 1
    /\ now = 1
    /\ inflight = EmptyBag
    /\ resp = NoResp
    /\ script = << >>
    /\ log = << >>
    /\ snapshot = << >>
    /\ \E u \in Users :
          page = [user |-> u, open |-> FALSE, coverImage |-> NoUrl,
                  previewUrl |-> NoUrl, uploading |-> FALSE,
                  loading |-> FALSE, uploads |-> {}, selected |-> 0]

DialogStep == UNCHANGED <<store, now, inflight, resp, script, log, snapshot>>

\* handleOpenChange(true), from the dialog trigger
OpenDialog ==
    /\ ~page.open
    /\ page' = [page EXCEPT !.open = TRUE]
    /\ DialogStep

\* handleOpenChange(false): Escape, a click outside, the close icon
CloseDialog ==
    /\ page.open
    /\ page' = [page EXCEPT !.open = FALSE, !.coverImage = NoUrl,
                            !.previewUrl = NoUrl]
    /\ DialogStep

\* the Cancel button: onClick={() => setOpen(false)}
CancelDialog ==
    /\ page.open
    /\ page' = [page EXCEPT !.open = FALSE]
    /\ DialogStep

\* handleFileSelect up to its await; the drop zone that opens the file
\* input is rendered when previewUrl is null
HandleFileSelect(file) ==
    /\ page.open
    /\ page.previewUrl = NoUrl
    /\ page.selected < MaxUploads
    /\ page' = [page EXCEPT
                  !.previewUrl = ObjectUrl(file),
                  !.uploading = TRUE,
                  !.uploads = @ \cup {[n |-> page.selected + 1, file |-> file]},
                  !.selected = @ + 1]
    /\ DialogStep

\* handleFileSelect after its await, answered ok
UploadOk(up) ==
    /\ up \in page.uploads
    /\ page' = [page EXCEPT !.coverImage = UploadUrl(up.file),
                            !.uploading = FALSE,
                            !.uploads = @ \ {up}]
    /\ DialogStep

\* handleFileSelect after its await, not ok: catch
UploadFails(up) ==
    /\ up \in page.uploads
    /\ page' = [page EXCEPT !.previewUrl = NoUrl,
                            !.coverImage = NoUrl,
                            !.uploading = FALSE,
                            !.uploads = @ \ {up}]
    /\ DialogStep

\* removeCoverImage: its button is rendered when previewUrl is set
RemoveCoverImage ==
    /\ page.open
    /\ page.previewUrl # NoUrl
    /\ page' = [page EXCEPT !.coverImage = NoUrl, !.previewUrl = NoUrl]
    /\ DialogStep

\* onSubmit up to its await: the submit button is disabled={loading ||
\* uploading}; title and author have passed formSchema
OnSubmit ==
    /\ page.open
    /\ ~page.loading
    /\ ~page.uploading
    /\ page.coverImage # NoUrl
    /\ CreateBook(page.user, TRUE, TRUE, page.coverImage # NoUrl)
    /\ page' = [page EXCEPT !.loading = TRUE]
    /\ UNCHANGED <<script, log, snapshot>>

\* onSubmit after its await
SubmitAnswered ==
    /\ page.loading
    /\ resp.kind = "Create"
    /\ resp' = NoResp
    /\ page' = IF Ok(resp.status)
               THEN [page EXCEPT !.coverImage = NoUrl, !.previewUrl = NoUrl,
                                 !.open = FALSE, !.loading = FALSE]
               ELSE [page EXCEPT !.loading = FALSE]
    /\ UNCHANGED <<store, now, inflight, script, log, snapshot>>

NextDialog ==
    \/ OpenDialog
    \/ CloseDialog
    \/ CancelDialog
    \/ \E file \in Files : HandleFileSelect(file)
    \/ \E up \in page.uploads : UploadOk(up)
    \/ \E up \in page.uploads : UploadFails(up)
    \/ RemoveCoverImage
    \/ OnSubmit
    \/ SubmitAnswered

SpecDialog == InitDialog /\ [][NextDialog]_vars

\* ================================================================ claims
HasOpenRental(id) == \E x \in rentals : x.bookId = id /\ x.returnedAt = Null

IsRenterOf(u, id) ==
    \E x \in rentals : x.bookId = id /\ x.returnedAt = Null /\ x.userId = u

\* C1: in every reachable state, whatever the interleaving of the store calls
\* of concurrent requests, a book has at most one rental with returnedAt null.
AtMostOneActiveRental ==
    \A x, y \in rentals :
        (x.bookId = y.bookId /\ x.returnedAt = Null /\ y.returnedAt = Null) => x = y

\* C2: two Rent requests for the same available book sent at the same time by
\* two users: once both are answered, one got 201 and the other 400.
RaceHasOneWinner ==
    (script = << >> /\ NoneInFlight) =>
        /\ Len(log) = 2
        /\ \E i, j \in 1..2 :
              /\ i # j
              /\ log[i].status = 201
              /\ log[j].status = 400
        /\ Cardinality(rentals) = 1

\* C3: a Return by an authenticated caller who holds no open rental of the
\* book, while the book has one, is answered 403 and changes no rental; a
\* Return that is answered 200 closed a rental of the caller on that book;
\* and returnedAt changes only in a step that completes a Return of the
\* rental's renter.
ReturnOnlyByRenter ==
    [][/\ \A u \in Users, id \in BookIds :
            (ReturnFind(u, id) /\ HasOpenRental(id) /\ ~IsRenterOf(u, id)) =>
                /\ resp' = Answered("Return", 403)
                /\ rentals' = rentals
                /\ inflight' = inflight
       /\ \A r \in BagToSet(inflight) :
            (ReturnUpdate(r) /\ resp'.status = 200) =>
                \E x \in rentals : x.id = r.rid /\ x.userId = r.user /\ x.bookId = r.book
       /\ \A x \in rentals, y \in rentals' :
            (x.id = y.id /\ x.returnedAt # y.returnedAt) =>
                \E r \in BagToSet(inflight) :
                    /\ r.kind = "Return"
                    /\ r.user = x.userId
                    /\ r.book = x.bookId
                    /\ inflight' = inflight (-) SetToBag({r})
                    /\ resp' = Answered("Return", 200)
      ]_vars

\* a stranger's Return has just been refused while the rental stays open
ReturnRefusedToStranger ==
    /\ resp = Answered("Return", 403)
    /\ \E x \in rentals : x.returnedAt = Null

\* C4: a Rent whose read of the store finds an open rental of the book is
\* answered 400 and creates no rental, for every authenticated caller.
RentOfRentedBookFails ==
    [][\A u \in Users, id \in BookIds :
          (RentFind(u, id) /\ HasOpenRental(id)) =>
              /\ resp' = Answered("Rent", 400)
              /\ rentals' = rentals
              /\ inflight' = inflight
      ]_vars

\* a Rent has just been refused and the book is still rented
RentRefusedWhileRented ==
    /\ resp = Answered("Rent", 400)
    /\ \E x \in rentals : x.returnedAt = Null

\* C5: every rental references a book that exists, also while a Rent or a
\* Return is interleaved with the two store writes of a Delete.
NoOrphanRental ==
    \A x \in rentals : \E b \in books : b.id = x.bookId

\* a Delete failed at its second write because a Rent inserted a rental
\* between deleteMany and delete: the book and the new rental both remain
DeleteOvertakenByRent ==
    /\ resp = Answered("Delete", 500)
    /\ \E b \in books : \E x \in rentals : x.bookId = b.id

\* C6: for every book that List and Get return, isAvailable is true exactly
\* when the store holds no rental of the book with returnedAt null.
AvailabilityIsDerived ==
    \A b \in books :
        /\ \E v \in ListBooks("all") : v.id = b.id
        /\ \A a \in {"all", "true", "false"} : \A v \in ListBooks(a) :
              v.id = b.id => (v.isAvailable <=> ~HasOpenRental(b.id))
        /\ \A g \in GetBook(b.id) :
              g.status = 200 /\ (g.isAvailable <=> ~HasOpenRental(b.id))

\* a book that has a closed rental and an open one
RentedAgain ==
    \E x, y \in rentals :
        x.bookId = y.bookId /\ x.returnedAt # Null /\ y.returnedAt = Null

\* C7: once returnedAt of a rental is set, no step changes the rental; it can
\* only disappear, and only in a step of a Delete of its book.
ClosedRentalImmutable ==
    [][\A x \in rentals :
          x.returnedAt # Null =>
              \/ x \in rentals'
              \/ /\ \A y \in rentals' : y.id # x.id
                 /\ \E r \in BagToSet(inflight) : r.kind = "Delete" /\ r.book = x.bookId
      ]_vars

\* C8: the lending scenario, answer by answer.  log[1] is the Create of U1,
\* log[2] the Rent of U2, log[3] the Return of U1, log[4] the Return of U2,
\* log[5] the second Rent of U2; book 1 is the book just created.
LendingScenario ==
    LET n == Len(log)
        U1 == log[1].user
        U2 == log[2].user
    IN /\ n >= 1 => log[1] = Answer("Create", U1, 1, 201)
       /\ n = 1 => /\ \A g \in GetBook(1) : g.status = 200 /\ g.isAvailable /\ g.ownerId = U1
                   /\ \E v \in ListBooks("all") : v.id = 1 /\ v.isAvailable
       /\ n >= 2 => log[2] = Answer("Rent", U2, 1, 201) /\ U2 # U1
       /\ n \in {2, 3} =>
              /\ \A g \in GetBook(1) :
                    /\ ~g.isAvailable
                    /\ g.currentRental # {}
                    /\ \A c \in g.currentRental : c.userId = U2
              /\ \E v \in ListBooks("all") :
                    /\ v.id = 1 /\ ~v.isAvailable
                    /\ v.currentRental # {}
                    /\ \A c \in v.currentRental : c.userId = U2
       /\ n >= 3 => log[3] = Answer("Return", U1, 1, 403)
       /\ n >= 4 => log[4] = Answer("Return", U2, 1, 200)
       /\ n = 4 => /\ \A g \in GetBook(1) : g.isAvailable /\ Len(g.rentals) = 1
                   /\ \A x \in rentals : x.returnedAt # Null /\ x.userId = U2
       /\ n >= 5 => log[5] = Answer("Rent", U2, 1, 201)
       /\ n = 5 => /\ Cardinality(rentals) = 2
                   /\ \E x, y \in rentals : x.returnedAt # Null /\ y.returnedAt = Null
                   /\ \A g \in GetBook(1) : Len(g.rentals) = 2 /\ ~g.isAvailable

\* the scenario has run to its end
ScenarioCompleted ==
    /\ Len(log) = 5
    /\ script = << >>
    /\ Cardinality(rentals) = 2

\* C9: a Delete is answered 404 when the book is absent and 403 when the
\* caller is not its owner, and then removes nothing; a book is removed, and
\* rentals are removed, only by a Delete of the book sent by its owner.
DeleteOnlyByOwner ==
    [][/\ \A u \in Users, id \in BookIds :
            DeleteFind(u, id) =>
                /\ (\A b \in books : b.id # id) =>
                      /\ resp' = Answered("Delete", 404)
                      /\ inflight' = inflight
                      /\ books' = books /\ rentals' = rentals
                /\ (\E b \in books : b.id = id /\ b.ownerId # u) =>
                      /\ resp' = Answered("Delete", 403)
                      /\ inflight' = inflight
                      /\ books' = books /\ rentals' = rentals
       /\ \A b \in books :
            b \notin books' =>
                \E r \in BagToSet(inflight) :
                    /\ r.kind = "Delete" /\ r.book = b.id /\ r.user = b.ownerId
                    /\ resp' = Answered("Delete", 200)
       /\ \A x \in rentals :
            (\A y \in rentals' : y.id # x.id) =>
                \E r \in BagToSet(inflight) : \E b \in books :
                    /\ r.kind = "Delete" /\ r.book = x.bookId
                    /\ b.id = x.bookId /\ r.user = b.ownerId
      ]_vars

\* a Delete by someone else than the owner has just been refused
DeleteRefusedToStranger ==
    /\ resp = Answered("Delete", 403)
    /\ books # {}

\* C10: requests sent one at a time.  A Rent by any authenticated user of an
\* existing book without open rental goes on to the insert, which is
\* answered 201 and adds exactly one rental (that book, that user, returnedAt
\* null), after which the book is not available; a Rent of a book that does
\* not exist is answered 404 and adds no rental.
RentCreatesOpenRental ==
    [][/\ \A u \in Users, id \in BookIds :
            RentFind(u, id) =>
                /\ (\A b \in books : b.id # id) =>
                      /\ resp' = Answered("Rent", 404)
                      /\ inflight' = inflight
                      /\ rentals' = rentals
                /\ ((\E b \in books : b.id = id) /\ ~HasOpenRental(id)) =>
                      /\ BagCardinality(inflight') = 1
                      /\ \A r \in BagToSet(inflight') :
                            r.kind = "Rent" /\ r.user = u /\ r.book = id
                      /\ rentals' = rentals
       /\ \A r \in BagToSet(inflight) :
            RentCreate(r) =>
                /\ resp' = Answered("Rent", 201)
                /\ \E x \in rentals' :
                      /\ x \notin rentals
                      /\ rentals' = rentals \cup {x}
                      /\ \A y \in rentals : y.id # x.id
                      /\ x.bookId = r.book /\ x.userId = r.user /\ x.returnedAt = Null
                /\ \A v \in ListBooks("all")' : v.id = r.book => ~v.isAvailable
                /\ \A g \in GetBook(r.book)' : g.status = 200 /\ ~g.isAvailable
      ]_vars

\* the owner of a book has just rented it
OwnerRentedOwnBook ==
    /\ resp = Answered("Rent", 201)
    /\ NoneInFlight
    /\ \E b \in books : \E x \in rentals :
          x.bookId = b.id /\ x.userId = b.ownerId /\ x.returnedAt = Null

\* C11: a Return of a book without open rental (the book may not exist) is
\* answered 404 and changes nothing; a Return by a renter of the book's open
\* rental is not refused, its update is answered 200 and sets returnedAt of
\* the rental found, and after it List and Get report the book as available.
ReturnClosesRental ==
    [][/\ \A u \in Users, id \in BookIds :
            ReturnFind(u, id) =>
                /\ ~HasOpenRental(id) =>
                      /\ resp' = Answered("Return", 404)
                      /\ inflight' = inflight
                      /\ rentals' = rentals
                /\ IsRenterOf(u, id) =>
                      /\ resp' = resp
                      /\ \E r \in BagToSet(inflight') :
                            /\ inflight' = inflight (+) SetToBag({r})
                            /\ r.kind = "Return" /\ r.user = u /\ r.book = id
       /\ \A r \in BagToSet(inflight) :
            ReturnUpdate(r) =>
                /\ resp' = Answered("Return", 200)
                /\ \E x \in rentals' : x.id = r.rid /\ x.returnedAt # Null
                /\ \A v \in ListBooks("all")' : v.id = r.book => v.isAvailable
                /\ \A g \in GetBook(r.book)' : g.status = 200 /\ g.isAvailable
      ]_vars

\* C12: a Create without session is answered 401, a Create of a signed-in
\* caller with title, author or coverImage missing is answered 400, and both
\* add no book; any other Create is answered 201 and adds exactly one book,
\* owned by the caller, which has no rental and which List and Get report as
\* available.  No Create touches a rental.
CreateContract ==
    [][\A u \in Callers, title \in BOOLEAN, author \in BOOLEAN, coverImage \in BOOLEAN :
          CreateBook(u, title, author, coverImage) =>
              /\ rentals' = rentals
              /\ u = NoUser =>
                    resp' = Answered("Create", 401) /\ books' = books
              /\ (u # NoUser /\ ~(title /\ author /\ coverImage)) =>
                    resp' = Answered("Create", 400) /\ books' = books
              /\ (u # NoUser /\ title /\ author /\ coverImage) =>
                    /\ resp' = Answered("Create", 201)
                    /\ \E b \in books' :
                          /\ books' = books \cup {b}
                          /\ \A c \in books : c.id # b.id
                          /\ b.ownerId = u
                          /\ \A x \in rentals' : x.bookId # b.id
                          /\ \E v \in ListBooks("true")' : v.id = b.id /\ v.isAvailable
                          /\ \A g \in GetBook(b.id)' :
                                g.status = 200 /\ g.isAvailable /\ g.ownerId = u
      ]_vars

\* a Create with a missing field has just been refused
CreateRefusedForMissingField ==
    resp = Answered("Create", 400)

\* C13: the book a Create inserts is owned by the caller of that Create and
\* gets an id no book had before; no step of a Create, Rent, Return or Delete
\* changes the ownerId of a book that stays in the store.
OwnerNeverChanges ==
    [][/\ \A u \in Users :
            CreateBook(u, TRUE, TRUE, TRUE) =>
                \A c \in books' :
                    c \notin books => (c.ownerId = u /\ c.id = nextBookId)
       /\ \A c \in books' :
            (\A b \in books : b.id # c.id) =>
                /\ c.id >= nextBookId
                /\ nextBookId' > c.id
                /\ resp' = Answered("Create", 201)
       /\ \A b \in books, c \in books' : b.id = c.id => c.ownerId = b.ownerId
       /\ nextBookId' >= nextBookId
      ]_vars

\* a book of a user other than the first has been rented and returned by
\* someone else and is still owned by its creator
OwnerKeptThroughLending ==
    \E b \in books : \E x \in rentals :
        /\ b.ownerId # 1
        /\ x.bookId = b.id /\ x.userId # b.ownerId /\ x.returnedAt # Null

ErrorStatuses == {400, 401, 403, 404, 500}

\* C14: requests sent one at a time over a store whose calls may fail.  When
\* a Create, Rent, Return or Delete has been answered with an error status,
\* the Book and Rental tables are as they were when the request started.
ErrorLeavesStoreUnchanged ==
    (resp.kind \in Kinds /\ resp.status \in ErrorStatuses) => Tables = snapshot

\* the same for Create, Rent and Return only
ErrorLeavesStoreUnchangedButDelete ==
    (resp.kind \in Kinds \ {"Delete"} /\ resp.status \in ErrorStatuses) =>
        Tables = snapshot

\* what the check of a Rent established still holds when its insert runs
RentWriteSeesItsCheck ==
    \A r \in BagToSet(inflight) :
        RentCreate(r) => (FindBook(r.book) # {} /\ ~HasOpenRental(r.book))

\* the rental a Return found open is still open when its update runs
ReturnWriteSeesItsCheck ==
    \A r \in BagToSet(inflight) :
        ReturnUpdate(r) => \E x \in rentals : x.id = r.rid /\ x.returnedAt = Null

\* the book a Delete found is still there, without rentals, when it is removed
DeleteWriteSeesItsCheck ==
    \A r \in BagToSet(inflight) :
        DeleteBook(r) => (FindBook(r.book) # {} /\ RentalsOf(r.book) = {})

\* no Get answers with a book whose rental history has lost entries
GetNeverSeesErasedHistory ==
    \A id \in BookIds : \A g \in GetBook(id), h \in GetBook(id)' :
        (g.status = 200 /\ h.status = 200) => Len(h.rentals) >= Len(g.rentals)

\* C15: every mutating operation is one atomic store transaction: each write
\* runs on the store state its check saw, and no request can read a state
\* between the two writes of a Delete (the book present, its rentals gone).
OperationsAreAtomic ==
    [][/\ RentWriteSeesItsCheck
       /\ ReturnWriteSeesItsCheck
       /\ DeleteWriteSeesItsCheck
       /\ GetNeverSeesErasedHistory
      ]_vars

\* the answer 401 of a handler that has called the store neither to read nor
\* to write: nothing is awaited, no table and no key counter changes
RefusedUnauthorized(kind) ==
    /\ resp' = Answered(kind, 401)
    /\ inflight' = inflight
    /\ store' = store

\* C16: Create (with any body), Rent, Return, Delete and GET /rentals/my sent
\* without a session are answered 401 without any store call, whatever the
\* book identifier and whether or not that book exists.
UnauthorizedBeforeStore ==
    [][/\ \A title \in BOOLEAN, author \in BOOLEAN, coverImage \in BOOLEAN :
            CreateBook(NoUser, title, author, coverImage) => RefusedUnauthorized("Create")
       /\ \A id \in BookIds :
            /\ RentFind(NoUser, id) => RefusedUnauthorized("Rent")
            /\ ReturnFind(NoUser, id) => RefusedUnauthorized("Return")
            /\ DeleteFind(NoUser, id) => RefusedUnauthorized("Delete")
       /\ RentalsMyGet(NoUser) => RefusedUnauthorized("RentalsMy")
      ]_vars

\* an anonymous Rent of a book that does not exist has just been refused
AnonymousRentOfMissingBook ==
    /\ resp = Answered("Rent", 401)
    /\ books = {}

BooksWith(P(_)) == {b.id : b \in {c \in books : P(c.id)}}

Ids(listed) == {v.id : v \in listed}

IsFree(id) == ~HasOpenRental(id)

\* C17: List with available=true returns exactly the books without open
\* rental, with available=false exactly the books with one, and with any
\* other value or without the parameter all books; the two filtered results
\* are disjoint and their union is the unfiltered result.
ListFilterPartitions ==
    /\ Ids(ListBooks("true")) = BooksWith(IsFree)
    /\ Ids(ListBooks("false")) = BooksWith(HasOpenRental)
    /\ \A a \in AvailableParams \ {"true", "false"} :
          /\ Ids(ListBooks(a)) = {b.id : b \in books}
          /\ ListBooks("true") \cap ListBooks("false") = {}
          /\ ListBooks("true") \cup ListBooks("false") = ListBooks(a)
          /\ Cardinality(ListBooks(a)) = Cardinality(books)
    /\ Ids(ListBooks("true")) \cap Ids(ListBooks("false")) = {}

\* a List has been answered over a store with an available and a rented book
ListedFreeAndRented ==
    /\ resp = Answered("List", 200)
    /\ ListBooks("true") # {}
    /\ ListBooks("false") # {}

\* currentRental is null exactly when isAvailable is true
NullWhenAvailable(view) == (view.currentRental = {}) <=> view.isAvailable

\* currentRental, when not null, is the one open rental of the book
TheOpenRental(view) ==
    view.currentRental # {} =>
        /\ Cardinality(view.currentRental) = 1
        /\ view.currentRental = {x \in rentals : x.bookId = view.id /\ x.returnedAt = Null}

\* C18: for every book that List and Get return, currentRental is null
\* exactly when isAvailable is true, otherwise it is the single rental of the
\* book with returnedAt null, and List and Get report the same currentRental.
CurrentRentalIsTheOpenOne ==
    \A b \in books :
        \A v \in {w \in ListBooks("null") : w.id = b.id}, g \in GetBook(b.id) :
            /\ NullWhenAvailable(v) /\ NullWhenAvailable(g)
            /\ TheOpenRental(v) /\ TheOpenRental(g)
            /\ v.currentRental = g.currentRental

\* the first part of C18 alone
CurrentRentalNullWhenAvailable ==
    \A b \in books :
        \A v \in {w \in ListBooks("null") : w.id = b.id}, g \in GetBook(b.id) :
            NullWhenAvailable(v) /\ NullWhenAvailable(g)

\* seq lists every element of S once, latest rentedAt first
ListsLatestFirst(seq, S) ==
    /\ Len(seq) = Cardinality(S)
    /\ {seq[i] : i \in 1..Len(seq)} = S
    /\ \A i, j \in 1..Len(seq) : i < j => seq[i].rentedAt >= seq[j].rentedAt

\* what Get(id) answers in the current store
GetAnswersHistory(id) ==
    /\ GetBook(id) # {}
    /\ IF \A b \in books : b.id # id
       THEN GetBook(id) = {[status |-> 404]}
       ELSE \A g \in GetBook(id) :
               /\ g.status = 200
               /\ ListsLatestFirst(g.rentals, {x \in rentals : x.bookId = id})

\* C19: Get of an existing book answers 200 with all the rentals of the book
\* that the store holds, open and closed, latest rentedAt first, and Get of a
\* book that does not exist answers 404; a rental that a Rent inserted is in
\* that list at once, and a rental leaves the store only in the deleteMany
\* step of a Delete of its book.
GetReturnsFullHistory ==
    [][/\ \A id \in BookIds : GetAnswersHistory(id) /\ GetAnswersHistory(id)'
       /\ \A r \in BagToSet(inflight) :
            (RentCreate(r) /\ resp'.status = 201) =>
                \A g \in GetBook(r.book)' :
                    \E i \in 1..Len(g.rentals) :
                        /\ g.rentals[i].id = nextRentalId
                        /\ g.rentals[i].userId = r.user
       /\ \A x \in rentals :
            (\A y \in rentals' : y.id # x.id) =>
                \E r \in BagToSet(inflight) : DeleteRentals(r) /\ r.book = x.bookId
      ]_vars

\* a book with a closed rental and a later rental
HistoryOfTwoRentals ==
    \E b \in books : \E x, y \in rentals :
        /\ x.bookId = b.id /\ y.bookId = b.id
        /\ x.returnedAt # Null
        /\ x.rentedAt < y.rentedAt

\* C20: GET /rentals/my of a signed-in caller returns the rentals whose
\* userId is the caller, all of them (open and closed, of every book) and no
\* other, latest rentedAt first; each of them belongs to an existing book.
RentalsMyAreTheCallers ==
    \A u \in Users :
        /\ RentalsMy(u) # {}
        /\ \A seq \in RentalsMy(u) :
              /\ ListsLatestFirst(seq, {x \in rentals : x.userId = u})
              /\ \A i \in 1..Len(seq) :
                    /\ seq[i].userId = u
                    /\ \E b \in books : b.id = seq[i].bookId

\* GET /rentals/my has been answered to a user who holds an open rental of
\* one book and a closed rental of another
OwnRentalsOnTwoBooks ==
    /\ resp = Answered("RentalsMy", 200)
    /\ \E x, y \in rentals :
          /\ x.userId = y.userId /\ x.bookId # y.bookId
          /\ x.returnedAt = Null /\ y.returnedAt # Null

\* C21: a Return that is answered 200 leaves every book as it was and
\* replaces one rental of the requested book by the same rental with another,
\* non-null returnedAt, every other rental staying as it was, so that no
\* book gains or loses a rental; and a book has fewer rentals after a step
\* only if the step is the deleteMany of a Delete of that book.
ReturnOnlyClosesOneRental ==
    [][/\ \A r \in BagToSet(inflight) :
            (ReturnUpdate(r) /\ resp' = Answered("Return", 200)) =>
                /\ books' = books
                /\ \E x \in rentals : \E t \in 1..MaxTime :
                      /\ x.bookId = r.book
                      /\ rentals' = (rentals \ {x}) \cup {[x EXCEPT !.returnedAt = t]}
                /\ \A id \in BookIds :
                      Cardinality({y \in rentals' : y.bookId = id}) =
                          Cardinality({y \in rentals : y.bookId = id})
       /\ \A id \in BookIds :
            Cardinality({y \in rentals' : y.bookId = id}) <
                Cardinality({y \in rentals : y.bookId = id}) =>
                    \E r \in BagToSet(inflight) : DeleteRentals(r) /\ r.book = id
      ]_vars

\* a Return has just succeeded on a book that has another rental
ReturnedOneOfTwo ==
    /\ resp = Answered("Return", 200)
    /\ \E x, y \in rentals : x # y /\ x.bookId = y.bookId

\* the number of requests of a kind for a book that were answered with st
Answers(kind, id, st) ==
    Cardinality({i \in 1..Len(log) :
        log[i].kind = kind /\ log[i].book = id /\ log[i].status = st})

\* C25: for every book, under every interleaving of the requests, the Return
\* requests answered 200 so far are no more than the Rent requests answered
\* 201 so far.
ReturnsNeverExceedRents ==
    \A id \in BookIds : Answers("Return", id, 200) <= Answers("Rent", id, 201)

\* C22: once the fetch of the My Books page has completed, the rentals tab
\* lists exactly the rentals of the store whose renter is the session user,
\* current and past.
MyRentalsTabIsComplete ==
    ~page.loading =>
        {page.myRentals[i] : i \in 1..Len(page.myRentals)} =
            {x \in rentals : x.userId = page.user}

\* C23: the list of the rentals tab holds no two entries with the same rental
\* id, holds only rentals of the session user, and is sorted by rentedAt
\* descending, whatever body GET /api/books answered with.
MyRentalsTabIsClean ==
    ~page.loading =>
        LET list == page.myRentals
        IN /\ \A i, j \in 1..Len(list) : i # j => list[i].id # list[j].id
           /\ \A i \in 1..Len(list) : list[i].userId = page.user
           /\ \A i, j \in 1..Len(list) : i < j => list[i].rentedAt >= list[j].rentedAt

\* the tab lists two rentals of the user, rented at different times
TabListsTwoRentals ==
    /\ ~page.loading
    /\ \E i, j \in 1..Len(page.myRentals) :
          page.myRentals[i].rentedAt # page.myRentals[j].rentedAt

\* the page has stopped awaiting its request and starts no fetch
SettledWithoutFetch ==
    page.action # "none" /\ page'.action = "none" /\ ~page'.fetching

\* a fetch of the page has completed
FetchCompleted == page.fetching /\ ~page'.fetching

\* what the page displays is what Get answers on the store as it is
DisplaysTheStore == page.book \in GetBook(DetailId)

\* C24: when a rent, return or delete request of the page and the fetch that
\* follows it have completed, the book displayed is the book of the store as
\* it is at that moment, whether the request succeeded or was rejected.
DisplayFollowsEveryRequest ==
    [][(page'.route = "detail" /\
          (SettledWithoutFetch \/ (FetchCompleted /\ FetchBook))) =>
          DisplaysTheStore'
      ]_vars

\* the same, for the requests that were answered with success and whose
\* fetch was answered by the store
DisplayFollowsSuccess ==
    [][(page'.route = "detail" /\ FetchCompleted /\ FetchBook) => DisplaysTheStore'
      ]_vars

\* a request that succeeded always starts a fetch
SuccessStartsFetch ==
    [][(ActionAnswered /\ Ok(resp.status) /\ page.action # "Delete") =>
          page'.fetching
      ]_vars

\* C28: the page offers Rent only for a displayed book with isAvailable
\* true, Return only for one whose currentRental is the user's, Delete only
\* for one the user owns; and a Return or Delete sent while the book
\* displayed is the book of the store is not answered 403.
OffersFollowSnapshot ==
    [][/\ ClickRent => page.book.isAvailable
       /\ ClickReturn =>
            \E c \in page.book.currentRental : c.userId = page.user
       /\ ClickDelete => page.book.ownerId = page.user
       /\ (ClickReturn /\ DisplaysTheStore) => resp' # Answered("Return", 403)
       /\ (ClickDelete /\ DisplaysTheStore) => resp' # Answered("Delete", 403)
      ]_vars

\* the offers alone
OffersFollowSnapshotOnly ==
    [][/\ ClickRent => page.book.isAvailable
       /\ ClickReturn =>
            \E c \in page.book.currentRental : c.userId = page.user
       /\ ClickDelete => page.book.ownerId = page.user
      ]_vars

\* C29: when a fetch of the detail page completes, either the book is
\* displayed or the user has been notified of the failure, with a redirect
\* to the library if the answer was 404; for every answer, 500 included.
FetchEndsDisplayedOrNotified ==
    [][FetchCompleted =>
          \/ page'.route = "detail" /\ ~page'.loading /\ page'.book.status = 200
          \/ page'.toast = "error" /\ (resp'.status = 404 => page'.route = "home")
      ]_vars

\* C26: on the home page, once every list request has been answered, the
\* list displayed is the answer for the filter selected, whatever order the
\* answers arrived in.
DisplayedListIsForSelectedFilter ==
    Fetches(page.pending) = 0 => page.books = ListBooks(Param(page.filter))

\* C27: on the My Books page, while a return or delete request for a book
\* has not been answered, the action button of that book is disabled, also
\* when an action on another book has been started in the meantime.
ButtonDisabledWhileInFlight == \A r \in Unanswered : Disabled(r.book)

\* the cover is the upload result of the file shown in the preview
CoverIsOfPreview ==
    \E file \in Files :
        page.previewUrl = ObjectUrl(file) /\ page.coverImage = UploadUrl(file)

\* C30: when the Add Book dialog sends POST /books, the coverImage it sends
\* is the upload result of the file selected last, the one in the preview,
\* and no upload is awaiting its answer.
SubmitSendsPreviewedCover ==
    [][OnSubmit => (CoverIsOfPreview /\ page.uploads = {})]_vars

TypeOK ==
    /\ nextBookId \in 1..(MaxBooks + 1)
    /\ nextRentalId \in 1..(MaxRentals + 1)
    /\ now \in 1..MaxTime
    /\ \A b \in books : b.id \in BookIds /\ b.ownerId \in Users
    /\ \A r \in rentals : r.userId \in Users /\ r.returnedAt \in 0..MaxTime
====
